---------------------------- MODULE Spec2Model ----------------------------
(***************************************************************************)
(* Clause-analysis pipeline of services/clause_extraction.py               *)
(* (ClauseExtractionService): segmentation, clause typing, cross-reference *)
(* extraction and the clause graph.                                        *)
(*                                                                         *)
(* A text is a sequence of atoms.  An atom is a string that stands for a   *)
(* run of characters of one kind: a whitespace character, a digit, a       *)
(* punctuation mark, a single letter, or a whole word (or fixed phrase).   *)
(* The regular expressions and string tests of the code are computed on    *)
(* the atoms by the character classes they contain.                        *)
(***************************************************************************)
EXTENDS Naturals, Sequences, FiniteSets

(***************************** bounds **************************************)
\* longest input of the segmentation family, in atoms
MaxSegLen == 6
\* longest input of the reference family, in atoms
MaxRefLen == 5
\* longest input of the typing family, in atoms
MaxTypeLen == 3
\* most rule keywords present in an input of the rule-table specification
MaxKeywords == 3
\* calls of build_clause_graph on one clause list
MaxRuns == 2
\* longest contract text given to the risk report, in atoms
MaxRiskLen == 3
\* largest denominator of the overall scores tried
MaxDen == 12
\* longest contract text given to get_negotiation_points, in atoms
MaxNegLen == 3
\* longest clause list given to map_obligations
MaxClauses == 2
\* requests served one after the other by the process
MaxRequests == 2
\* entries of a references list handed to build_clause_graph
MaxInitRefs == 2

(************************* character classes *******************************)
Space == " "
Newline == "\n"
Whitespace == {Space, Newline}
Digits == {"0", "1", "2", "3", "4", "5", "6", "7", "8", "9"}
UpperLetters == {"A", "B"}
LowerLetters == {"a", "b"}
\* words and phrases written entirely in upper case
UpperWords == {"SHALL", "PURPOSE", "TERMS AND CONDITIONS OF SALE"}
\* words with both cases
MixedWords == {"Section", "Clause", "Company", "This", "The", "Purpose"}

\* s.lower() of one atom
LowerAtom(a) ==
    CASE a = "A" -> "a"
      [] a = "B" -> "b"
      [] a = "SHALL" -> "shall"
      [] a = "PURPOSE" -> "purpose"
      [] a = "TERMS AND CONDITIONS OF SALE" -> "terms and conditions of sale"
      [] a = "Section" -> "section"
      [] a = "Clause" -> "clause"
      [] a = "Company" -> "company"
      [] a = "This" -> "this"
      [] a = "The" -> "the"
      [] a = "Purpose" -> "purpose"
      [] OTHER -> a

Punctuation == {".", ")", "(", ","}

\* an atom that holds a lower-case letter: text.upper() changes it
HasLowerChar(a) ==
    a \notin Whitespace \cup Digits \cup Punctuation \cup UpperLetters \cup UpperWords

\* an atom that starts with lower-case letters: what [a-z]+ can consume
StartsLower(a) == HasLowerChar(a) /\ a \notin MixedWords

\* whitespace-separated words inside one atom, beyond the first
ExtraWords(a) ==
    CASE a \in {"TERMS AND CONDITIONS OF SALE", "terms and conditions of sale"} -> 4
      [] a = "limitation of liability" -> 2
      [] a \in {"governing law", "dispute resolution", "force majeure",
                "intellectual property", "ip license", "without notice",
                "commercially reasonable", "automatically renew", "personal data",
                "injunctive relief"} -> 1
      [] OTHER -> 0

\* the keywords that occur inside an atom (Python's substring test)
Substrings(a) ==
    {a} \cup (IF a = "limitation of liability" THEN {"liability", "limitation"} ELSE {})
        \cup (IF a = "commercially reasonable" THEN {"reasonable"} ELSE {})

\* kw in text
Contains(kw, text) == \E i \in DOMAIN text : kw \in Substrings(text[i])

\* text.lower()
lower(text) == [i \in DOMAIN text |-> LowerAtom(text[i])]

\* str(n) for n >= 0: the decimal numeral, no leading zero
DigitAtom(d) ==
    CASE d = 0 -> "0" [] d = 1 -> "1" [] d = 2 -> "2" [] d = 3 -> "3" [] d = 4 -> "4"
      [] d = 5 -> "5" [] d = 6 -> "6" [] d = 7 -> "7" [] d = 8 -> "8" [] OTHER -> "9"

RECURSIVE str(_)
str(n) == IF n < 10 THEN <<DigitAtom(n)>> ELSE str(n \div 10) \o <<DigitAtom(n % 10)>>

(***************************** regex pieces ********************************)
\* index just past the longest run of digit atoms that starts at i
RECURSIVE DigitsEnd(_, _)
DigitsEnd(s, i) == IF i <= Len(s) /\ s[i] \in Digits THEN DigitsEnd(s, i + 1) ELSE i

\* index just past the longest run of lower-case atoms that starts at i
RECURSIVE LowerEnd(_, _)
LowerEnd(s, i) == IF i <= Len(s) /\ StartsLower(s[i]) THEN LowerEnd(s, i + 1) ELSE i

\* (?:\d+\.|[A-Z]\.|[a-z]\)) matched at i: index of its last atom, 0 if no match
MarkerEnd(s, i) ==
    LET d == DigitsEnd(s, i)
    IN  IF d > i /\ d <= Len(s) /\ s[d] = "." THEN d
        ELSE IF i + 1 <= Len(s) /\ s[i] \in UpperLetters /\ s[i + 1] = "." THEN i + 1
        ELSE IF i + 1 <= Len(s) /\ s[i] \in LowerLetters /\ s[i + 1] = ")" THEN i + 1
        ELSE 0

\* \n(?:\d+\.|[A-Z]\.|[a-z]\))\s matched at i: index of its last atom, 0 if no match
DelimiterEnd(s, i) ==
    IF i <= Len(s) /\ s[i] = Newline
    THEN LET m == MarkerEnd(s, i + 1)
         IN  IF m # 0 /\ m + 1 <= Len(s) /\ s[m + 1] \in Whitespace THEN m + 1 ELSE 0
    ELSE 0

\* re.split(clause_delimiters, text): the pieces between the matches, empty ones kept
RECURSIVE re_split(_, _, _)
re_split(s, i, start) ==
    IF i > Len(s) THEN <<SubSeq(s, start, Len(s))>>
    ELSE LET e == DelimiterEnd(s, i)
         IN  IF e # 0 THEN <<SubSeq(s, start, i - 1)>> \o re_split(s, e + 1, e + 1)
             ELSE re_split(s, i + 1, start)

\* s.strip()
RECURSIVE lstrip(_)
lstrip(s) == IF s # <<>> /\ Head(s) \in Whitespace THEN lstrip(Tail(s)) ELSE s

RECURSIVE rstrip(_)
rstrip(s) == IF s # <<>> /\ s[Len(s)] \in Whitespace
             THEN rstrip(SubSeq(s, 1, Len(s) - 1)) ELSE s

strip(s) == rstrip(lstrip(s))

\* len(text.split()): the whitespace-separated words of a text
WordCount(s) ==
    Cardinality({i \in DOMAIN s : s[i] \notin Whitespace
                                    /\ (i = 1 \/ s[i - 1] \in Whitespace)})
    + Cardinality({<<i, k>> \in (DOMAIN s) \X (1..4) : k <= ExtraWords(s[i])})

(***************************** the model (spaCy) ***************************)
\* places where a sentence may end inside a stripped block: the start of each
\* run of whitespace
Gaps(b) == {i \in 2..Len(b) : b[i] \in Whitespace /\ b[i - 1] \notin Whitespace}

\* the block cut at the places C, every piece stripped (sent.text.strip())
RECURSIVE CutAt(_, _, _, _)
CutAt(b, C, i, start) ==
    IF i > Len(b) THEN <<strip(SubSeq(b, start, Len(b)))>>
    ELSE IF i \in C THEN <<strip(SubSeq(b, start, i - 1))>> \o CutAt(b, C, i + 1, i)
    ELSE CutAt(b, C, i + 1, start)

\* doc.sents of self.nlp(segment): the sentence boundaries are the statistical
\* model's choice, so every division of the block into runs of words is possible
Sents(b) == {CutAt(b, C, 1, 1) : C \in SUBSET Gaps(b)}

(***************************** segment_text ********************************)
RECURSIVE StripNonEmpty(_)
StripNonEmpty(pieces) ==
    IF pieces = <<>> THEN <<>>
    ELSE IF strip(Head(pieces)) = <<>> THEN StripNonEmpty(Tail(pieces))
    ELSE <<strip(Head(pieces))>> \o StripNonEmpty(Tail(pieces))

\* a filter that also drops the pieces of a single atom
RECURSIVE StripLong(_)
StripLong(pieces) ==
    IF pieces = <<>> THEN <<>>
    ELSE IF Len(strip(Head(pieces))) <= 1 THEN StripLong(Tail(pieces))
    ELSE <<strip(Head(pieces))>> \o StripLong(Tail(pieces))

\* segments = [s.strip() for s in segments if s.strip()]
FilterPieces(pieces) == StripNonEmpty(pieces)

Blocks(text) == FilterPieces(re_split(text, 1, 1))

\* the sentences of every block, in order: one sequence per behaviour of the model
RECURSIVE Refine(_)
Refine(blocks) ==
    IF blocks = <<>> THEN {<<>>}
    ELSE {a \o r : a \in Sents(Head(blocks)), r \in Refine(Tail(blocks))}

\* the results segment_text(text) can return
segment_text(text) == Refine(Blocks(text))

(*************************** determine_clause_type *************************)
\* the 18 labels of the clause taxonomy (the code holds no such list)
Taxonomy ==
    {"obligation", "right", "definition", "warranty", "indemnity", "limitation",
     "governing_law", "dispute_resolution", "force_majeure", "assignment",
     "confidentiality", "ip_license", "termination", "renewal", "exclusivity",
     "non_compete", "header", "unknown"}

is_clause_header(text) ==
    IF MarkerEnd(text, 1) # 0 THEN TRUE
    ELSE IF WordCount(text) <= 5 /\ \A i \in DOMAIN text : ~HasLowerChar(text[i]) THEN TRUE
    ELSE FALSE

\* the rules for "may" and "shall" in the other order
rule_based_may_first(text0) ==
    LET text == lower(text0)
    IN  IF Contains("may", text) THEN "right"
        ELSE IF Contains("shall", text) THEN "obligation"
        ELSE IF Contains("governing law", text) THEN "governing_law"
        ELSE "unknown"

\* the rule for "dispute resolution" ahead of the rule for "governing law"
rule_based_dispute_first(text0) ==
    LET text == lower(text0)
    IN  IF Contains("shall", text) THEN "obligation"
        ELSE IF Contains("dispute resolution", text) THEN "dispute_resolution"
        ELSE IF Contains("governing law", text) THEN "governing_law"
        ELSE "unknown"

rule_based_clause_type(text0) ==
    LET text == lower(text0)
    IN  IF Contains("shall", text) THEN "obligation"
        ELSE IF Contains("may", text) THEN "right"
        ELSE IF Contains("definition", text) \/ Contains("means", text) THEN "definition"
        ELSE IF Contains("warranty", text) THEN "warranty"
        ELSE IF Contains("indemnify", text) THEN "indemnity"
        ELSE IF Contains("limitation of liability", text) THEN "limitation"
        ELSE IF Contains("governing law", text) THEN "governing_law"
        ELSE IF Contains("dispute resolution", text) THEN "dispute_resolution"
        ELSE IF Contains("force majeure", text) THEN "force_majeure"
        ELSE IF Contains("assignment", text) THEN "assignment"
        ELSE IF Contains("confidentiality", text) THEN "confidentiality"
        ELSE IF Contains("intellectual property", text) \/ Contains("ip license", text)
             THEN "ip_license"
        ELSE IF Contains("termination", text) THEN "termination"
        ELSE IF Contains("renewal", text) THEN "renewal"
        ELSE IF Contains("exclusivity", text) THEN "exclusivity"
        ELSE IF Contains("non-compete", text) THEN "non_compete"
        ELSE "unknown"

\* what a call of self.classifier(text, ...) can do: raise, or return a label of
\* its own label set (the NLI model loaded in __init__ answers "entailment")
Raise == "raise"
ClassifierLabels == {"obligation", "entailment"}
Outcomes == {Raise} \cup ClassifierLabels
NotInvoked == "not_invoked"

\* the except branch answering "unknown" instead of the rule-based label
determine_clause_type_no_fallback(text, classifier, outcome) ==
    IF is_clause_header(text) THEN [label |-> "header", invoked |-> FALSE]
    ELSE IF classifier # "none"
         THEN IF outcome # Raise THEN [label |-> outcome, invoked |-> TRUE]
              ELSE [label |-> "unknown", invoked |-> TRUE]
         ELSE [label |-> rule_based_clause_type(text), invoked |-> FALSE]

\* the classifier consulted before the header test
determine_clause_type_header_last(text, classifier, outcome) ==
    IF classifier # "none"
    THEN IF is_clause_header(text) THEN [label |-> "header", invoked |-> TRUE]
         ELSE IF outcome # Raise THEN [label |-> outcome, invoked |-> TRUE]
         ELSE [label |-> rule_based_clause_type(text), invoked |-> TRUE]
    ELSE IF is_clause_header(text) THEN [label |-> "header", invoked |-> FALSE]
    ELSE [label |-> rule_based_clause_type(text), invoked |-> FALSE]

\* determine_clause_type(text) for a service whose self.classifier is `classifier`
\* ("none" or "loaded") and whose classifier, if called, does `outcome`:
\* the label returned, and whether the classifier was called
determine_clause_type(text, classifier, outcome) ==
    IF is_clause_header(text) THEN [label |-> "header", invoked |-> FALSE]
    ELSE IF classifier # "none"
         THEN IF outcome # Raise THEN [label |-> outcome, invoked |-> TRUE]
              ELSE [label |-> rule_based_clause_type(text), invoked |-> TRUE]
         ELSE [label |-> rule_based_clause_type(text), invoked |-> FALSE]

(*************************** calculate_risk_score **************************)
\* in tenths
calculate_risk_score(text0) ==
    LET text == lower(text0)
        score == (IF Contains("liability", text) THEN 3 ELSE 0)
                 + (IF Contains("terminate", text) THEN 2 ELSE 0)
                 + (IF Contains("exclusive", text) THEN 2 ELSE 0)
    IN  IF score < 10 THEN score ELSE 10

(************************** find_clause_references *************************)
RECURSIVE WhitespaceEnd(_, _)
WhitespaceEnd(s, i) == IF i <= Len(s) /\ s[i] \in Whitespace THEN WhitespaceEnd(s, i + 1) ELSE i

\* (?:Section|Clause)\s+(\d+(?:\.\d+)?(?:[a-z]+)?) matched at i: index just past
\* the match, 0 if no match; RefStart is where group 1 starts
RefStart(s, i) == WhitespaceEnd(s, i + 1)

RefEnd(s, i) ==
    IF i <= Len(s) /\ s[i] \in {"Section", "Clause"}
    THEN LET w == RefStart(s, i)
             d == DigitsEnd(s, w)
             f == IF d <= Len(s) /\ s[d] = "." /\ DigitsEnd(s, d + 1) > d + 1
                  THEN DigitsEnd(s, d + 1) ELSE d
         IN  IF w > i + 1 /\ d > w THEN LowerEnd(s, f) ELSE 0
    ELSE 0

\* re.finditer: the matches left to right, not overlapping; group 1 of each
RECURSIVE FindFrom(_, _)
FindFrom(s, i) ==
    IF i > Len(s) THEN <<>>
    ELSE LET e == RefEnd(s, i)
         IN  IF e # 0 THEN <<SubSeq(s, RefStart(s, i), e - 1)>> \o FindFrom(s, e)
             ELSE FindFrom(s, i + 1)

find_clause_references(text) == FindFrom(text, 1)

(*************************** RiskScoringService ****************************)
\* Scores of one clause are counted in hundredths. An overall score is the
\* fraction num / den, so that a mean over any number of clauses is exact.
\* (risk_scoring.py is laid out with __init__'s first statements one column
\* deeper than lines 33-41; the model reads all of them as the body of __init__.)
high_risk_keywords ==
    <<"sole discretion", "unilateral", "without notice", "absolute discretion",
      "indemnify", "hold harmless">>
medium_risk_keywords ==
    <<"may", "reasonable", "commercially reasonable", "material adverse", "best efforts">>
force_majeure_patterns == <<"act of god", "unforeseen circumstances">>
security_patterns == <<"data breach", "cybersecurity incident">>
data_privacy_patterns == <<"personal data", "personally identifiable information", "pii">>

\* x in list
InList(x, list) == \E i \in DOMAIN list : list[i] = x

min(a, b) == IF a < b THEN a ELSE b

\* the keywords of the list that occur in the text, in the order of the list
RECURSIVE KeywordHits(_, _)
KeywordHits(keywords, text) ==
    IF keywords = <<>> THEN <<>>
    ELSE (IF Contains(Head(keywords), text) THEN <<Head(keywords)>> ELSE <<>>)
             \o KeywordHits(Tail(keywords), text)

Factors(hits, level) == [i \in DOMAIN hits |-> <<"Keyword", hits[i], level>>]

\* keyword_based_risk(text): 0.5 for each high-risk keyword in the text and 0.2
\* for each medium-risk keyword
keyword_based_risk(text) ==
    LET high == KeywordHits(high_risk_keywords, text)
        medium == KeywordHits(medium_risk_keywords, text)
    IN  [score |-> 50 * Len(high) + 20 * Len(medium),
         factors |-> Factors(high, "High Risk") \o Factors(medium, "Medium Risk")]

\* what a call of self.risk_analyzer(text, ...) can do inside the try block:
\* raise; return a label with a confidence; or return them and have a later
\* statement of the block (the formatting of the confidence, lines 97 and 100)
\* raise after the score was adjusted
RiskLabels == {"High Risk", "Medium Risk", "Low Risk"}
Confidences == {50, 100}
NotCalled == [kind |-> "not_called", label |-> "none", confidence |-> 0]
Signals ==
    {[kind |-> "raise", label |-> "none", confidence |-> 0]}
        \cup [kind : {"verdict"}, label : RiskLabels, confidence : Confidences]
        \cup [kind : {"verdict_then_raise"}, label : {"High Risk", "Medium Risk"},
              confidence : Confidences]
SignalsOf(analyzer) == IF analyzer = "none" THEN {NotCalled} ELSE Signals

\* what lines 96-101 add to the score for a verdict
Adjustment(sig) ==
    IF sig.label = "High Risk" THEN sig.confidence
    ELSE IF sig.label = "Medium Risk" THEN sig.confidence \div 2
    ELSE 0

\* the except branch adding the keyword score to what the score already holds
calculate_clause_risk_tiers_adding(text, analyzer, sig) ==
    IF analyzer # "none"
    THEN IF sig.kind = "raise" THEN keyword_based_risk(text)
         ELSE IF sig.kind = "verdict_then_raise"
              THEN [score |-> Adjustment(sig) + keyword_based_risk(text).score,
                    factors |-> keyword_based_risk(text).factors]
         ELSE [score |-> Adjustment(sig),
               factors |-> IF sig.label \in {"High Risk", "Medium Risk"}
                           THEN <<<<"Transformer", sig.label, sig.confidence>>>>
                           ELSE <<>>]
    ELSE keyword_based_risk(text)

\* calculate_clause_risk, lines 85-109: score and risk_factors when the choice
\* between the analyzer and the keywords has been made. In the except branch
\* `score, factors = self.keyword_based_risk(text)` assigns the score.
calculate_clause_risk_tiers(text, analyzer, sig) ==
    IF analyzer # "none"
    THEN IF sig.kind \in {"raise", "verdict_then_raise"} THEN keyword_based_risk(text)
         ELSE [score |-> Adjustment(sig),
               factors |-> IF sig.label \in {"High Risk", "Medium Risk"}
                           THEN <<<<"Transformer", sig.label, sig.confidence>>>>
                           ELSE <<>>]
    ELSE keyword_based_risk(text)

\* pattern.search(text) for an element of the pattern lists: the elements are
\* str objects, and str has no attribute search
AttributeError == "AttributeError"
pattern_search(pattern, text) == AttributeError

\* any(pattern.search(text) for pattern in patterns)
RECURSIVE any_pattern_search(_, _)
any_pattern_search(patterns, text) ==
    IF patterns = <<>> THEN "False"
    ELSE LET found == pattern_search(Head(patterns), text)
         IN  IF found = AttributeError THEN AttributeError
             ELSE IF found = "True" THEN "True"
             ELSE any_pattern_search(Tail(patterns), text)

\* calculate_clause_risk, lines 112-136, entered with the score and the factors of
\* lines 85-109: the clause type, the auto-renewal pattern, the three pattern
\* lists, the cap. An exception raised on the way is not caught. Of the returned
\* dict the score and the factors are kept, the two entries score_clauses reads.
calculate_clause_risk_checks(clause, score, risk_factors) ==
    LET text == lower(clause.text)
        typed == IF clause.type = "indemnity"
                 THEN [score |-> score + 40,
                       factors |-> Append(risk_factors, <<"Clause Type", "Indemnity">>)]
                 ELSE IF clause.type = "limitation"
                 THEN [score |-> score + 30,
                       factors |-> Append(risk_factors, <<"Clause Type", "Limitation of Liability">>)]
                 ELSE [score |-> score, factors |-> risk_factors]
        renew == IF Contains("automatically renew", text)
                 THEN [score |-> typed.score + 30,
                       factors |-> Append(typed.factors, <<"Auto-renewal Pattern Detected">>)]
                 ELSE typed
        force == any_pattern_search(force_majeure_patterns, text)
        security == any_pattern_search(security_patterns, text)
        privacy == any_pattern_search(data_privacy_patterns, text)
        s4 == renew.score + (IF force = "True" THEN 40 ELSE 0)
        s5 == s4 + (IF security = "True" THEN 50 ELSE 0)
        s6 == s5 + (IF privacy = "True" THEN 60 ELSE 0)
    IN  IF AttributeError \in {force, security, privacy}
        THEN [raised |-> AttributeError, score |-> renew.score, factors |-> renew.factors]
        ELSE [raised |-> "none",
              score |-> min(s6, 100),
              factors |-> renew.factors
                  \o (IF force = "True" THEN <<<<"Force Majeure Pattern Detected">>>> ELSE <<>>)
                  \o (IF security = "True"
                      THEN <<<<"Security/Data Breach Pattern Detected">>>> ELSE <<>>)
                  \o (IF privacy = "True"
                      THEN <<<<"Data privacy/PII risk detected">>>> ELSE <<>>)]

\* the MSA branch without its base of 70
calibrate_without_base(score, ctype) ==
    IF ctype = "NDA"
    THEN [num |-> min(20 * score.den, score.num * 20), den |-> score.den]
    ELSE IF ctype = "MSA"
    THEN [num |-> min(85 * score.den, score.num * 15), den |-> score.den]
    ELSE score

\* calibrate_overall_risk_score(score, contract_type) on the fraction score
calibrate_overall_risk_score(score, ctype) ==
    IF ctype = "NDA"
    THEN [num |-> min(20 * score.den, score.num * 20), den |-> score.den]
    ELSE IF ctype = "MSA"
    THEN [num |-> min(85 * score.den, 70 * score.den + score.num * 15), den |-> score.den]
    ELSE score

\* overall_score > tenths / 10
Exceeds(overall_score, tenths) == overall_score.num * 10 > tenths * overall_score.den

\* calculate_compliance_score(overall_score), in hundredths
calculate_compliance_score(overall_score) ==
    IF Exceeds(overall_score, 7)
       /\ (InList("personal information", high_risk_keywords)
            \/ InList("data privacy", high_risk_keywords))
    THEN 40
    ELSE 80

\* the suggestions for the clauses from the k-th on; clause.risk_score is the
\* field that extract_clauses filled, in tenths
RECURSIVE ClauseSuggestions(_, _)
ClauseSuggestions(cls, k) ==
    IF k > Len(cls) THEN <<>>
    ELSE (IF cls[k].risk_score > 8
          THEN <<<<"Review clause">> \o str(cls[k].id) \o <<"due to high-risk keywords.">>>>
          ELSE <<>>)
             \o ClauseSuggestions(cls, k + 1)

\* generate_suggestions(clauses, overall_score)
generate_suggestions(cls, overall_score) ==
    (IF Exceeds(overall_score, 6)
     THEN <<<<"Consider seeking legal advice to review high-risk clauses.">>>>
     ELSE <<>>)
        \o ClauseSuggestions(cls, 1)

RECURSIVE SumScores(_, _)
SumScores(risks, k) ==
    IF k > Len(risks) THEN 0 ELSE risks[k].risk_score + SumScores(risks, k + 1)

\* score_clauses, lines 60-81: the report made of the clause_risks of the loop,
\* with the four fields that the RiskReport model declares
RiskReport(cls, risks) ==
    LET mean == IF Len(cls) > 0
                THEN [num |-> SumScores(risks, 1), den |-> 100 * Len(cls)]
                ELSE [num |-> 0, den |-> 1]
        overall_score == calibrate_overall_risk_score(mean, "MSA")
    IN  [clause_risks |-> risks,
         overall_score |-> overall_score,
         compliance_score |-> calculate_compliance_score(overall_score),
         suggestions |-> generate_suggestions(cls, overall_score)]

\* get_negotiation_points, lines 210-214: the loop over the clauses from the
\* k-th on. The strings looked up in the list ("Consider limiting liability",
\* "Ensure termination rights") are not the strings appended.
RECURSIVE KeywordPoints(_, _, _)
KeywordPoints(cls, k, points) ==
    IF k > Len(cls) THEN points
    ELSE LET text == lower(cls[k].text)
             p1 == IF Contains("liability", text)
                      /\ ~InList("Consider limiting liability", points)
                   THEN Append(points, "Limit the Provider's Liability")
                   ELSE points
             p2 == IF Contains("termination", text)
                      /\ ~InList("Ensure termination rights", p1)
                   THEN Append(p1, "Balance Termination Rights for both parties")
                   ELSE p1
         IN  KeywordPoints(cls, k + 1, p2)

\* get_negotiation_points(clauses)
get_negotiation_points(cls) ==
    LET relief == IF \E k \in DOMAIN cls : ~Contains("injunctive relief", lower(cls[k].text))
                  THEN <<"Add injunctive relief / equitable remedies">> ELSE <<>>
        return == IF \E k \in DOMAIN cls : Contains("data-return", lower(cls[k].text))
                  THEN <<"Ensure data-return/destroy timelines are clear and reasonable">>
                  ELSE <<>>
        fees == IF \E k \in DOMAIN cls : Contains("fee", lower(cls[k].text))
                THEN <<"Removal of hidden/unilateral fees">> ELSE <<>>
    IN  KeywordPoints(cls, 1, relief \o return \o fees)

(************************ ObligationMappingService *************************)
\* the tokens of self.nlp(clause_text): the atoms that are not whitespace
Tokens(text) == {text[i] : i \in {j \in DOMAIN text : text[j] \notin Whitespace}}

\* what the dependency parse leaves in party and action after the loop over the
\* tokens: the last token with dep_ "nsubj", if there is one, and the last token
\* with dep_ "ROOT" (every parsed sentence has one)
NotParsed == [party |-> "Unknown", action |-> "Unknown"]
Parses(text) ==
    IF Tokens(text) = {} THEN {NotParsed}
    ELSE [party : Tokens(text) \cup {"Unknown"}, action : Tokens(text)]

\* an Obligation made without the test for "shall"
extract_obligation_always(clause_text, parse) ==
    <<[party |-> parse.party, action |-> parse.action,
       condition |-> "Unknown", due_date |-> "Unknown"]>>

\* extract_obligation(clause_text): the Obligation in a sequence, <<>> for None
extract_obligation(clause_text, parse) ==
    IF Contains("shall", lower(clause_text))
    THEN <<[party |-> parse.party, action |-> parse.action,
            condition |-> "Unknown", due_date |-> "Unknown"]>>
    ELSE <<>>

\* extract_right(clause_text): the Right in a sequence, <<>> for None
extract_right(clause_text, parse) ==
    IF Contains("may", lower(clause_text))
    THEN <<[party |-> parse.party, action |-> parse.action,
            condition |-> "Unknown", due_date |-> "Unknown"]>>
    ELSE <<>>

\* the loop of map_obligations from the k-th clause on
RECURSIVE MapFrom(_, _, _, _, _)
MapFrom(cls, parses, k, obligations, rights) ==
    IF k > Len(cls) THEN [obligations |-> obligations, rights |-> rights]
    ELSE IF cls[k].type = "obligation"
    THEN MapFrom(cls, parses, k + 1,
                 obligations \o extract_obligation(cls[k].text, parses[k]), rights)
    ELSE IF cls[k].type = "right"
    THEN MapFrom(cls, parses, k + 1,
                 obligations, rights \o extract_right(cls[k].text, parses[k]))
    ELSE MapFrom(cls, parses, k + 1, obligations, rights)

\* map_obligations(clauses), the parser doing parses[k] on the k-th clause
map_obligations(cls, parses) == MapFrom(cls, parses, 1, <<>>, <<>>)

\* the parses that can happen on the clauses: one for each clause that
\* extract_obligation or extract_right is called on
RECURSIVE ParseChoices(_)
ParseChoices(cls) ==
    IF cls = <<>> THEN {<<>>}
    ELSE LET here == IF Head(cls).type \in {"obligation", "right"}
                     THEN Parses(Head(cls).text) ELSE {NotParsed}
         IN  {<<p>> \o r : p \in here, r \in ParseChoices(Tail(cls))}

(******************************** state ************************************)
VARIABLES
    classifier,   \* self.classifier: "loaded", or "none" when loading failed
    text,         \* the contract text that extract_clauses is called on
    segments,     \* what segment_text returned
    calls,        \* per segment: what the classifier did when called, or NotInvoked
    clauses,      \* the list of Clause objects
    pc,           \* the position of the call in progress, or what has returned
    bi,           \* build_clause_graph: index of the clause of the outer loop
    bj,           \* build_clause_graph: index of the reference of the inner loop
    runs,         \* completed calls of build_clause_graph
    firstRefs,    \* the references of every clause when the first call returned
    result,       \* the value returned, or the exception raised, by the last call
    risk_analyzer,  \* self.risk_analyzer: "loaded", or "none" when loading failed
    contract_type,  \* the type the contract was declared with
    args,           \* the arguments of a method of RiskScoringService called alone
    ci,             \* score_clauses: index of the clause of its loop
    signal,         \* calculate_clause_risk: what the call of risk_analyzer did
    score,          \* calculate_clause_risk: its local score, in hundredths
    risk_factors,   \* calculate_clause_risk: its local risk_factors
    clause_risks,   \* score_clauses: its local clause_risks
    stored,         \* routers: whether db.get finds the contract of the request
    request,        \* routers: the endpoint whose handler is running or ran last
    response,       \* routers: status code of the last response, 0 before it
    served,         \* routers: number of requests answered by this process
    loads,          \* ClauseExtractionService.__init__: times it loaded its models
    tasks           \* upload_contract: its background tasks, in the order added

extractVars ==
    <<classifier, text, segments, calls, clauses, bi, bj, runs, firstRefs>>
riskVars ==
    <<risk_analyzer, contract_type, args, ci, signal, score, risk_factors, clause_risks>>
routerVars == <<stored, request, response, served, loads, tasks>>
vars == <<extractVars, pc, result, riskVars, routerVars>>

\* no RiskScoringService has been constructed
NoRiskScoring ==
    /\ risk_analyzer = "none"
    /\ contract_type = "none"
    /\ args = "none"
    /\ ci = 0
    /\ signal = NotCalled
    /\ score = 0
    /\ risk_factors = <<>>
    /\ clause_risks = <<>>

\* the service is called directly, no request handler is running
NoRequest ==
    /\ stored = FALSE
    /\ request = "none"
    /\ response = 0
    /\ served = 0
    /\ loads = 0
    /\ tasks = <<>>

(******************************** inputs ***********************************)
SeqsUpTo(A, n) == UNION {[1..k -> A] : k \in 0..n}

SegAlphabet == {Newline, "1", ".", "purpose"}
RefAlphabet == {"Section", Space, "0", "1", "2", ".", "a"}
TypeAlphabet == {"shall", "SHALL", "Company", "TERMS AND CONDITIONS OF SALE", Space, "A", "."}

\* "1. This is the Purpose. 2. The Company shall maintain confidentiality."
NumberedSentences ==
    <<"1", ".", Space, "This", Space, "is", Space, "the", Space, "Purpose", ".", Space,
      "2", ".", Space, "The", Space, "Company", Space, "shall", Space, "maintain",
      Space, "confidentiality", ".">>

\* the inputs tried: the typing family with either service, the other two and
\* the two numbered sentences with the service whose classifier failed to load
Texts(clf) ==
    IF clf = "loaded" THEN SeqsUpTo(TypeAlphabet, MaxTypeLen)
    ELSE SeqsUpTo(SegAlphabet, MaxSegLen) \cup SeqsUpTo(RefAlphabet, MaxRefLen)
             \cup SeqsUpTo(TypeAlphabet, MaxTypeLen) \cup {NumberedSentences}

(**************************** extract_clauses ******************************)
\* the id counter left as it is
NextClauseIdStuck(clause_id) == clause_id

\* clause_id += 1
NextClauseId(clause_id) == clause_id + 1

\* the loop of extract_clauses over segments[k..], clause_id being the next id
RECURSIVE MakeClauses(_, _, _, _, _)
MakeClauses(segs, k, clause_id, clf, outs) ==
    IF k > Len(segs) THEN <<>>
    ELSE <<[id |-> clause_id,
            type |-> determine_clause_type(segs[k], clf, outs[k]).label,
            text |-> segs[k],
            precision_score |-> 8,
            risk_score |-> calculate_risk_score(segs[k]),
            references |-> find_clause_references(segs[k]),
            party |-> "Unknown"]>>
         \o MakeClauses(segs, k + 1, NextClauseId(clause_id), clf, outs)

\* the inner loop visiting again the reference it has just visited
NextPosNotAdvancing(cls, i, j) ==
    IF i > Len(cls) THEN <<i, 1>>
    ELSE IF j >= 2 /\ j - 1 <= Len(cls[i].references) THEN <<i, j - 1>>
    ELSE IF j <= Len(cls[i].references) THEN <<i, j>>
    ELSE <<Len(cls) + 1, 1>>

\* the first position (clause, reference) at or after (i, j) that the two loops
\* of build_clause_graph visit; i = Len(cls) + 1 when there is none
RECURSIVE NextPos(_, _, _)
NextPos(cls, i, j) ==
    IF i > Len(cls) THEN <<i, 1>>
    ELSE IF j <= Len(cls[i].references) THEN <<i, j>>
    ELSE NextPos(cls, i + 1, 1)

References(cls) == [k \in DOMAIN cls |-> cls[k].references]

\* build_clause_graph is entered on cls, or has just advanced to (i, j)
Enter(cls, i, j) ==
    LET p == NextPos(cls, i, j)
    IN  /\ bi' = p[1]
        /\ bj' = p[2]
        /\ IF p[1] > Len(cls)
           THEN /\ pc' = "done"
                /\ runs' = runs + 1
                /\ firstRefs' = IF runs = 0 THEN References(cls) ELSE firstRefs
           ELSE /\ pc' = "build"
                /\ UNCHANGED <<runs, firstRefs>>

\* what the classifier can do on each segment, in order: one of Outcomes on a
\* segment it is called on, nothing on the others
RECURSIVE Behaviours(_, _)
Behaviours(segs, clf) ==
    IF segs = <<>> THEN {<<>>}
    ELSE LET here == IF determine_clause_type(Head(segs), clf, Raise).invoked
                     THEN Outcomes ELSE {NotInvoked}
         IN  {<<o>> \o r : o \in here, r \in Behaviours(Tail(segs), clf)}

ExtractClauses ==
    /\ pc = "idle"
    /\ \E segs \in segment_text(text) :
         \E outs \in Behaviours(segs, classifier) :
           LET cls == MakeClauses(segs, 1, 0, classifier, outs)
           IN  /\ segments' = segs
               /\ calls' = outs
               /\ clauses' = cls
               /\ Enter(cls, 1, 1)
    /\ UNCHANGED <<classifier, text, result, riskVars, routerVars>>

(*************************** build_clause_graph ****************************)
\* the comparison without the + 1
FirstMatchSameNumber(cls, ref) ==
    LET hits == {k \in DOMAIN cls : str(cls[k].id) = ref}
    IN  IF hits = {} THEN 0 ELSE CHOOSE k \in hits : \A h \in hits : k <= h

\* next(c for c in clauses if str(c.id + 1) == ref): the index of the first such
\* clause, 0 on StopIteration
FirstMatch(cls, ref) ==
    LET hits == {k \in DOMAIN cls : str(cls[k].id + 1) = ref}
    IN  IF hits = {} THEN 0 ELSE CHOOSE k \in hits : \A h \in hits : k <= h

\* the resolved id written over the reference it resolves
ResolveInPlace(cls, i, j) ==
    LET k == FirstMatch(cls, cls[i].references[j])
    IN  IF k # 0
        THEN [cls EXCEPT ![i].references[j] = str(cls[k].id)]
        ELSE cls

\* one pass of the inner loop body, for clause i and its reference j
Resolve(cls, i, j) ==
    LET k == FirstMatch(cls, cls[i].references[j])
    IN  IF k # 0
        THEN [cls EXCEPT ![i].references = Append(@, str(cls[k].id))]
        ELSE cls

BuildStep ==
    /\ pc = "build"
    /\ LET cls == Resolve(clauses, bi, bj)
       IN  /\ clauses' = cls
           /\ Enter(cls, bi, bj + 1)
    /\ UNCHANGED <<classifier, text, segments, calls, result, riskVars, routerVars>>

\* build_clause_graph(clauses) called again on the list it has resolved; on a
\* list without references the call enters no loop body and is left out
BuildClauseGraph ==
    /\ pc = "done"
    /\ runs < MaxRuns
    /\ \E k \in DOMAIN clauses : clauses[k].references # <<>>
    /\ Enter(clauses, 1, 1)
    /\ UNCHANGED <<classifier, text, segments, calls, clauses, result, riskVars, routerVars>>

(***************************** specification *******************************)
Init ==
    /\ classifier \in {"none", "loaded"}
    /\ text \in Texts(classifier)
    /\ segments = <<>>
    /\ calls = <<>>
    /\ clauses = <<>>
    /\ pc = "idle"
    /\ bi = 1
    /\ bj = 1
    /\ runs = 0
    /\ firstRefs = <<>>
    /\ result = "none"
    /\ NoRiskScoring
    /\ NoRequest

Next == ExtractClauses \/ BuildStep \/ BuildClauseGraph

Spec == Init /\ [][Next]_vars

(************** rule_based_clause_type called alone ************************)
RuleKeywords ==
    {"shall", "may", "definition", "means", "warranty", "indemnify",
     "limitation of liability", "governing law", "dispute resolution",
     "force majeure", "assignment", "confidentiality", "intellectual property",
     "ip license", "termination", "renewal", "exclusivity", "non-compete"}

\* words separated by single spaces
RECURSIVE Spaced(_)
Spaced(ws) ==
    IF Len(ws) <= 1 THEN ws ELSE <<Head(ws), Space>> \o Spaced(Tail(ws))

\* texts of at most MaxKeywords keywords, in any order, with or without another word
RuleTexts ==
    {Spaced(ws) : ws \in SeqsUpTo(RuleKeywords \cup {"SHALL", "purpose"}, MaxKeywords)}

InitRules ==
    /\ classifier = "none"
    /\ text \in RuleTexts
    /\ segments = <<>>
    /\ calls = <<>>
    /\ clauses = <<>>
    /\ pc = "rules"
    /\ bi = 1
    /\ bj = 1
    /\ runs = 0
    /\ firstRefs = <<>>
    /\ result = "none"
    /\ NoRiskScoring
    /\ NoRequest

RuleBasedClauseType ==
    /\ pc = "rules"
    /\ result' = rule_based_clause_type(text)
    /\ pc' = "ruled"
    /\ UNCHANGED <<extractVars, riskVars, routerVars>>

\* determine_clause_type(text) of a service whose classifier failed to load
DetermineClauseType ==
    /\ pc = "rules"
    /\ result' = determine_clause_type(text, classifier, NotInvoked).label
    /\ pc' = "typed"
    /\ UNCHANGED <<extractVars, riskVars, routerVars>>

NextRules == RuleBasedClauseType \/ DetermineClauseType

SpecRules == InitRules /\ [][NextRules]_vars

(****************** extract_clauses, then score_clauses ********************)
\* the risk report endpoint: extract_clauses(contract.text), then score_clauses
\* on its result. The texts hold no reference, so build_clause_graph has
\* nothing to resolve.
RiskAlphabet ==
    {Space, "indemnify", "without notice", "commercially reasonable",
     "limitation of liability", "automatically renew", "personal data", "purpose"}
RiskTexts == SeqsUpTo(RiskAlphabet, MaxRiskLen)
ContractTypes == {"NDA", "MSA", "SOW"}

InitScore ==
    /\ classifier = "none"
    /\ text \in RiskTexts
    /\ segments = <<>>
    /\ calls = <<>>
    /\ clauses = <<>>
    /\ pc = "idle"
    /\ bi = 1
    /\ bj = 1
    /\ runs = 0
    /\ firstRefs = <<>>
    /\ result = "none"
    /\ risk_analyzer \in {"none", "loaded"}
    /\ contract_type \in ContractTypes
    /\ args = "none"
    /\ ci = 0
    /\ signal = NotCalled
    /\ score = 0
    /\ risk_factors = <<>>
    /\ clause_risks = <<>>
    /\ NoRequest

\* score_clauses(clauses) up to its loop; for an empty list, to its return
ScoreClauses ==
    /\ pc = "done"
    /\ request \in {"none", "risk"}
    /\ IF clauses = <<>>
       THEN /\ result' = RiskReport(clauses, <<>>)
            /\ pc' = "scored"
            /\ UNCHANGED ci
       ELSE /\ ci' = 1
            /\ pc' = "tiers"
            /\ UNCHANGED result
    /\ UNCHANGED <<routerVars, extractVars, risk_analyzer, contract_type, args, signal, score,
                   risk_factors, clause_risks>>

\* calculate_clause_risk(clauses[ci]), lines 85-109
ClauseRiskTiers ==
    /\ pc = "tiers"
    /\ \E sig \in SignalsOf(risk_analyzer) :
         LET tiers == calculate_clause_risk_tiers(lower(clauses[ci].text), risk_analyzer, sig)
         IN  /\ signal' = sig
             /\ score' = tiers.score
             /\ risk_factors' = tiers.factors
    /\ pc' = "checks"
    /\ UNCHANGED <<routerVars, extractVars, result, risk_analyzer, contract_type, args, ci, clause_risks>>

\* calculate_clause_risk(clauses[ci]), lines 112-136, and the rest of the loop
\* body of score_clauses; after the last clause, lines 60-81
ClauseRiskChecks ==
    /\ pc = "checks"
    /\ LET clause_risk == calculate_clause_risk_checks(clauses[ci], score, risk_factors)
           risks == Append(clause_risks, [clause_id |-> clauses[ci].id,
                                          risk_score |-> clause_risk.score,
                                          risk_factors |-> clause_risk.factors])
       IN  IF clause_risk.raised # "none"
           THEN /\ pc' = "raised"
                /\ result' = clause_risk.raised
                /\ UNCHANGED <<ci, score, risk_factors, clause_risks>>
           ELSE /\ clause_risks' = risks
                /\ score' = 0
                /\ risk_factors' = <<>>
                /\ IF ci < Len(clauses)
                   THEN /\ ci' = ci + 1
                        /\ pc' = "tiers"
                        /\ UNCHANGED result
                   ELSE /\ result' = RiskReport(clauses, risks)
                        /\ pc' = "scored"
                        /\ UNCHANGED ci
    /\ UNCHANGED <<routerVars, extractVars, risk_analyzer, contract_type, args, signal>>

NextScore == ExtractClauses \/ ScoreClauses \/ ClauseRiskTiers \/ ClauseRiskChecks

SpecScore == InitScore /\ [][NextScore]_vars

(*********** methods of RiskScoringService called on their own *************)
\* the overall scores in [0, 1] with a denominator of at most MaxDen
Fractions == UNION {{[num |-> n, den |-> d] : n \in 0..d} : d \in 1..MaxDen}

\* a constructed service and no call of extract_clauses or score_clauses
InitMethod ==
    /\ classifier = "none"
    /\ segments = <<>>
    /\ calls = <<>>
    /\ clauses = <<>>
    /\ bi = 1
    /\ bj = 1
    /\ runs = 0
    /\ firstRefs = <<>>
    /\ result = "none"
    /\ risk_analyzer \in {"none", "loaded"}
    /\ contract_type = "none"
    /\ ci = 0
    /\ signal = NotCalled
    /\ score = 0
    /\ risk_factors = <<>>
    /\ clause_risks = <<>>
    /\ NoRequest

InitCalibrate ==
    /\ InitMethod
    /\ text = <<>>
    /\ args \in [score : Fractions, contract_type : ContractTypes]
    /\ pc = "calibrate"

CalibrateOverallRiskScore ==
    /\ pc = "calibrate"
    /\ result' = calibrate_overall_risk_score(args.score, args.contract_type)
    /\ pc' = "calibrated"
    /\ UNCHANGED <<extractVars, riskVars, routerVars>>

NextCalibrate == CalibrateOverallRiskScore

SpecCalibrate == InitCalibrate /\ [][NextCalibrate]_vars

\* keyword_based_risk(text) on the lower-cased text of a clause
InitKeywords ==
    /\ InitMethod
    /\ text \in RiskTexts
    /\ args = "none"
    /\ pc = "keywords"

KeywordBasedRisk ==
    /\ pc = "keywords"
    /\ result' = keyword_based_risk(lower(text))
    /\ pc' = "keyword_scored"
    /\ UNCHANGED <<extractVars, riskVars, routerVars>>

NextKeywords == KeywordBasedRisk

SpecKeywords == InitKeywords /\ [][NextKeywords]_vars

\* calculate_compliance_score(overall_score) for the report of the contract `text`
InitCompliance ==
    /\ InitMethod
    /\ text \in {t \in RiskTexts : Len(t) <= 1}
    /\ args \in [overall_score : Fractions]
    /\ pc = "compliance"

CalculateComplianceScore ==
    /\ pc = "compliance"
    /\ result' = calculate_compliance_score(args.overall_score)
    /\ pc' = "compliance_scored"
    /\ UNCHANGED <<extractVars, riskVars, routerVars>>

NextCompliance == CalculateComplianceScore

SpecCompliance == InitCompliance /\ [][NextCompliance]_vars

(************** extract_clauses, then get_negotiation_points ***************)
NegAlphabet ==
    {Space, "liability", "termination", "fee", "injunctive relief", "data-return",
     "purpose"}
NegTexts == SeqsUpTo(NegAlphabet, MaxNegLen)

InitNegotiation ==
    /\ InitMethod
    /\ text \in NegTexts
    /\ args = "none"
    /\ pc = "idle"

GetNegotiationPoints ==
    /\ pc = "done"
    /\ result' = get_negotiation_points(clauses)
    /\ pc' = "negotiated"
    /\ UNCHANGED <<extractVars, riskVars, routerVars>>

NextNegotiation == ExtractClauses \/ GetNegotiationPoints

SpecNegotiation == InitNegotiation /\ [][NextNegotiation]_vars

(************************ map_obligations called alone *********************)
ObligationTexts ==
    {<<"Company", Space, "shall">>, <<"The", Space, "SHALL">>, <<"This", Space, "may">>,
     <<"purpose">>}
ObligationTypes == {"obligation", "right", "unknown"}

\* a Clause as extract_clauses builds it, for a type and a text
InputClause(id, type, t) ==
    [id |-> id, type |-> type, text |-> t, precision_score |-> 8,
     risk_score |-> calculate_risk_score(t),
     references |-> find_clause_references(t), party |-> "Unknown"]

ObligationClauses ==
    {[k \in DOMAIN kinds |-> InputClause(k - 1, kinds[k][1], kinds[k][2])] :
        kinds \in SeqsUpTo(ObligationTypes \X ObligationTexts, MaxClauses)}

InitObligations ==
    /\ InitMethod
    /\ text = <<>>
    /\ args = "none"
    /\ pc = "map"

\* the list of clauses handed to map_obligations
GivenClauses ==
    /\ pc = "map"
    /\ clauses' \in ObligationClauses
    /\ pc' = "given"
    /\ UNCHANGED <<classifier, text, segments, calls, bi, bj, runs, firstRefs, result,
                   riskVars, routerVars>>

\* map_obligations storing the subject it found in the party of each clause
MapObligationsSettingParty ==
    /\ pc = "given" \/ (pc = "done" /\ request \in {"obligations", "rights"})
    /\ \E parses \in ParseChoices(clauses) :
         /\ result' = map_obligations(clauses, parses)
         /\ clauses' = [k \in DOMAIN clauses |->
                           [clauses[k] EXCEPT !.party = parses[k].party]]
    /\ pc' = "mapped"
    /\ UNCHANGED <<classifier, text, segments, calls, bi, bj, runs, firstRefs,
                   riskVars, routerVars>>

\* map_obligations(clauses), on a list handed to it or, in the handlers of the
\* obligations and rights endpoints, on the list extract_clauses returned
MapObligations ==
    /\ pc = "given" \/ (pc = "done" /\ request \in {"obligations", "rights"})
    /\ \E parses \in ParseChoices(clauses) :
         result' = map_obligations(clauses, parses)
    /\ pc' = "mapped"
    /\ UNCHANGED <<extractVars, riskVars, routerVars>>

NextObligations == GivenClauses \/ MapObligations

SpecObligations == InitObligations /\ [][NextObligations]_vars

(********************** the analysis endpoints *****************************)
Endpoints == {"clauses", "obligations", "rights", "risk", "metadata", "compare"}
ExtractionEndpoints == {"clauses", "obligations", "rights", "risk"}

\* contract.text of the contract the requests name
RouterTexts ==
    {<<>>, <<"Company", Space, "shall">>, <<"This", Space, "may">>,
     <<"Section", Space, "1">>, <<"indemnify">>}

\* one process, no request received yet; the contract is in the database or not
InitRouter ==
    /\ classifier = "none"
    /\ text \in RouterTexts
    /\ segments = <<>>
    /\ calls = <<>>
    /\ clauses = <<>>
    /\ pc = "waiting"
    /\ bi = 1
    /\ bj = 1
    /\ runs = 0
    /\ firstRefs = <<>>
    /\ result = "none"
    /\ NoRiskScoring
    /\ stored \in BOOLEAN
    /\ request = "none"
    /\ response = 0
    /\ served = 0
    /\ loads = 0
    /\ tasks = <<>>

\* the handler's exit: the response is sent
Answer(status) ==
    /\ response' = status
    /\ served' = served + 1
    /\ pc' = "waiting"

\* a handler of an analysis endpoint from its entry: db.get, the test of its
\* result inside the try, and then either the except branch, or the
\* construction of the services (the outcome of loading the risk analyzer at
\* line 322 is drawn here, with that of the classifier), or the awaited call
\* of the metadata and compare handlers
Receive ==
    /\ pc = "waiting"
    /\ served < MaxRequests
    /\ \E e \in Endpoints :
         /\ request' = e
         /\ IF ~stored
            THEN /\ Answer(500)
                 /\ UNCHANGED <<extractVars, result, riskVars, loads>>
            ELSE IF e \in ExtractionEndpoints
            THEN /\ loads' = loads + 1
                 /\ classifier' \in {"none", "loaded"}
                 /\ risk_analyzer' \in IF e = "risk" THEN {"none", "loaded"} ELSE {"none"}
                 /\ segments' = <<>>
                 /\ calls' = <<>>
                 /\ clauses' = <<>>
                 /\ bi' = 1
                 /\ bj' = 1
                 /\ runs' = 0
                 /\ firstRefs' = <<>>
                 /\ result' = "none"
                 /\ ci' = 0
                 /\ signal' = NotCalled
                 /\ score' = 0
                 /\ risk_factors' = <<>>
                 /\ clause_risks' = <<>>
                 /\ response' = 0
                 /\ pc' = "idle"
                 /\ UNCHANGED <<text, contract_type, args, served>>
            ELSE /\ \E status \in {200, 500} : Answer(status)
                 /\ UNCHANGED <<extractVars, result, riskVars, loads>>
    /\ UNCHANGED <<stored, tasks>>

\* the return of a handler, or its except branch after score_clauses raised
Respond ==
    /\ \/ pc = "done" /\ request = "clauses" /\ Answer(200)
       \/ pc = "mapped" /\ request \in {"obligations", "rights"} /\ Answer(200)
       \/ pc = "scored" /\ request = "risk" /\ Answer(200)
       \/ pc = "raised" /\ request = "risk" /\ Answer(500)
    /\ UNCHANGED <<extractVars, result, riskVars, stored, request, loads, tasks>>

NextRouter ==
    \/ Receive
    \/ ExtractClauses
    \/ BuildStep
    \/ ScoreClauses
    \/ ClauseRiskTiers
    \/ ClauseRiskChecks
    \/ MapObligations
    \/ Respond

SpecRouter == InitRouter /\ [][NextRouter]_vars

(************************** the upload endpoint ****************************)
ContentTypes ==
    {"application/pdf", "text/plain",
     "application/vnd.openxmlformats-officedocument.wordprocessingml.document",
     "text/csv", "image/png"}
Extensions == {".pdf", ".docx", ".txt", ".csv"}
FileContents == {<<>>, <<"purpose">>, <<"Company", Space, "shall">>}

\* the uploaded files: what file.read() returns, file.content_type and the
\* extension of file.filename
UploadFiles == [content : FileContents, content_type : ContentTypes, extension : Extensions]

\* process_uploaded_file: the status its failure is answered with, 200 when
\* it returns a contract. extracted is what the extract_text_from_ function
\* did ("text", "empty" or "raise"), metadata what get_document_metadata did
process_uploaded_file(file, extracted, metadata) ==
    IF file.extension \notin {".pdf", ".docx", ".txt"} THEN 400
    ELSE IF extracted # "text" THEN 400
    ELSE IF metadata = "raise" THEN 400
    ELSE 200

\* Contract(text=text, metadata=metadata, id=-1), the id as its decimal string
UploadedContract(file) == [id |-> "-1", text |-> file.content, metadata |-> "metadata"]

InitUpload ==
    /\ InitMethod
    /\ risk_analyzer = "none"
    /\ text = <<>>
    /\ args \in UploadFiles
    /\ pc = "waiting"

\* upload_contract, the whole handler: its response, and on the path that
\* returns the contract the background task it has added. written is whether
\* the temporary file could be written
UploadContract ==
    /\ pc = "waiting"
    /\ served < MaxRequests
    /\ request' = "upload"
    /\ \E written \in BOOLEAN, extracted \in {"text", "empty", "raise"},
          metadata \in {"ok", "raise"} :
         LET status == IF args.content = <<>> THEN 400
                       ELSE IF args.content_type \notin ContentTypes \ {"image/png"} THEN 400
                       ELSE IF ~written THEN 500
                       ELSE process_uploaded_file(args, extracted, metadata)
         IN  /\ Answer(status)
             /\ IF status = 200
                THEN /\ result' = UploadedContract(args)
                     /\ tasks' = Append(tasks, "pending")
                ELSE /\ result' = "none"
                     /\ UNCHANGED tasks
    /\ UNCHANGED <<extractVars, riskVars, stored, loads>>

\* persist_contract run as the first pending background task, after the
\* response of its request was sent: ContractModel(text=, metadata=,
\* created_at=) lacks the required id, the constructor raises, the except
\* branch rolls back and raises again
PersistContract ==
    /\ \E k \in DOMAIN tasks :
         /\ tasks[k] = "pending"
         /\ \A h \in 1..(k - 1) : tasks[h] # "pending"
         /\ tasks' = [tasks EXCEPT ![k] = "raised"]
    /\ UNCHANGED <<extractVars, pc, result, riskVars, stored, request, response,
                   served, loads>>

NextUpload == UploadContract \/ PersistContract

SpecUpload == InitUpload /\ [][NextUpload]_vars

(****************** build_clause_graph called alone ************************)
GraphRefs == {<<"2">>, <<"1", ".", "1">>}

\* lists of clauses with ids 0, 1, ... and any references
GraphClauses ==
    {[k \in DOMAIN refs |->
        [InputClause(k - 1, "unknown", <<>>) EXCEPT !.references = refs[k]]] :
        refs \in SeqsUpTo(SeqsUpTo(GraphRefs, MaxInitRefs), MaxClauses)}

InitGraph ==
    /\ InitMethod
    /\ risk_analyzer = "none"
    /\ text = <<>>
    /\ args = "none"
    /\ pc = "graph"

\* build_clause_graph(clauses) entered; args keeps the list as it was handed over
CallBuildClauseGraph ==
    /\ pc = "graph"
    /\ \E cls \in GraphClauses :
         /\ clauses' = cls
         /\ args' = cls
         /\ Enter(cls, 1, 1)
    /\ UNCHANGED <<classifier, text, segments, calls, result, risk_analyzer,
                   contract_type, ci, signal, score, risk_factors, clause_risks,
                   routerVars>>

NextGraph == CallBuildClauseGraph \/ BuildStep

SpecGraph == InitGraph /\ [][NextGraph]_vars

\* the loops are sequential code: a pass of the loop body that can run, runs
SpecGraphFair == SpecGraph /\ WF_vars(BuildStep)

(******************************** claims ***********************************)
Range(s) == {s[i] : i \in DOMAIN s}

\* extract_clauses has returned (and build_clause_graph is not running again)
Returned == pc = "done"

\* C1: the clauses returned by extract_clauses carry the ids 0, 1, ..., n-1 and
\* the clause with id i holds the i-th segment produced by segment_text
ClauseIdsFollowSegments ==
    Returned =>
        /\ Len(clauses) = Len(segments)
        /\ \A k \in DOMAIN clauses :
             clauses[k].id = k - 1 /\ clauses[k].text = segments[k]

\* C1 witness: a text split at a delimiter, returned as at least two clauses
ClauseIdsWitness ==
    /\ Returned
    /\ Len(re_split(text, 1, 1)) >= 2
    /\ Len(clauses) >= 2
    /\ clauses[2].id = 1

\* some piece between the structural delimiters holds a non-whitespace character
HasContent(t) == \E k \in DOMAIN re_split(t, 1, 1) : strip(re_split(t, 1, 1)[k]) # <<>>

SecondBuildChangesNothing ==
    (Returned /\ runs >= 2) =>
        /\ References(clauses) = firstRefs
        /\ \A k \in DOMAIN clauses :
             \A i, j \in DOMAIN clauses[k].references :
                 clauses[k].references[i] = clauses[k].references[j] => i = j

\* C4: after extract_clauses no clause's references contains the clause's own id.
\* Only the ids that build_clause_graph added are looked at (the entries after
\* the raw tokens), so a raw token that happens to read like the id does not count
NoSelfReference ==
    Returned =>
        \A k \in DOMAIN clauses :
            \A j \in DOMAIN clauses[k].references :
                j > Len(find_clause_references(clauses[k].text))
                    => clauses[k].references[j] # str(clauses[k].id)

\* C5: a clause whose text cites "Section N" or "Clause N", N the numeral of an
\* integer in 1..number of clauses, has the id N-1 in its references after
\* build_clause_graph
CitedSectionResolved ==
    Returned =>
        \A k \in DOMAIN clauses : \A n \in 1..Len(clauses) :
            str(n) \in Range(find_clause_references(clauses[k].text))
                => str(n - 1) \in Range(clauses[k].references)

\* C5 witness: "Section 2" cited in a contract of two clauses or more, resolved
\* to the clause with id 1
CitedSectionWitness ==
    /\ Returned
    /\ Len(clauses) >= 2
    /\ \E k \in DOMAIN clauses :
         /\ <<"2">> \in Range(find_clause_references(clauses[k].text))
         /\ <<"1">> \in Range(clauses[k].references)

\* C6: after build_clause_graph every entry of every clause's references is the
\* id of a clause of the sequence (tokens that resolve to no clause are dropped)
ReferencesAreClauseIds ==
    Returned =>
        \A k \in DOMAIN clauses : \A r \in Range(clauses[k].references) :
            \E c \in DOMAIN clauses : r = str(clauses[c].id)

\* C7: every clause type is a label of the fixed taxonomy, whatever the primary
\* classifier does
TypeInTaxonomy ==
    Returned => \A k \in DOMAIN clauses : clauses[k].type \in Taxonomy

\* C8: when the primary classifier raises on a segment, the clause gets the label
\* that a service without a classifier gives the segment
RaiseFallsBackToRules ==
    Returned =>
        \A k \in DOMAIN clauses :
            calls[k] = Raise =>
                clauses[k].type = determine_clause_type(segments[k], "none", NotInvoked).label

\* C8 witness: the classifier raised on a segment with "shall", typed obligation
RaiseFallsBackWitness ==
    /\ Returned
    /\ \E k \in DOMAIN clauses : calls[k] = Raise /\ clauses[k].type = "obligation"

\* the keywords of each label's rule, and the order of the rules
OrderedLabels ==
    <<"obligation", "right", "definition", "warranty", "indemnity", "limitation",
      "governing_law", "dispute_resolution", "force_majeure", "assignment",
      "confidentiality", "ip_license", "termination", "renewal", "exclusivity",
      "non_compete">>

KeywordsOf(label) ==
    CASE label = "obligation" -> {"shall"}
      [] label = "right" -> {"may"}
      [] label = "definition" -> {"definition", "means"}
      [] label = "warranty" -> {"warranty"}
      [] label = "indemnity" -> {"indemnify"}
      [] label = "limitation" -> {"limitation of liability"}
      [] label = "governing_law" -> {"governing law"}
      [] label = "dispute_resolution" -> {"dispute resolution"}
      [] label = "force_majeure" -> {"force majeure"}
      [] label = "assignment" -> {"assignment"}
      [] label = "confidentiality" -> {"confidentiality"}
      [] label = "ip_license" -> {"intellectual property", "ip license"}
      [] label = "termination" -> {"termination"}
      [] label = "renewal" -> {"renewal"}
      [] label = "exclusivity" -> {"exclusivity"}
      [] OTHER -> {"non-compete"}

\* the first label of OrderedLabels with a keyword in the lower-cased text
ReferenceLabel(t) ==
    LET hits == {i \in DOMAIN OrderedLabels :
                    \E kw \in KeywordsOf(OrderedLabels[i]) : Contains(kw, lower(t))}
    IN  IF hits = {} THEN "unknown"
        ELSE OrderedLabels[CHOOSE i \in hits : \A h \in hits : i <= h]

\* C9: the rule-based fallback returns the label of the first rule, in the stated
\* order, whose keyword occurs in the lower-cased text, and "unknown" if none does
RulesAreFirstMatch == pc = "ruled" => result = ReferenceLabel(text)

\* C9 witness: a text with the keywords of two rules, the later rule's first
RulesFirstMatchWitness ==
    /\ pc = "ruled"
    /\ text = <<"may", Space, "SHALL">>
    /\ result = "obligation"

StartsWithMarker(t) == MarkerEnd(t, 1) # 0
ShortUpperCase(t) == WordCount(t) <= 5 /\ \A i \in DOMAIN t : ~HasLowerChar(t[i])

EarlierKeywords(label) ==
    UNION {KeywordsOf(OrderedLabels[i]) :
             i \in {j \in DOMAIN OrderedLabels :
                      \A h \in DOMAIN OrderedLabels : OrderedLabels[h] = label => j < h}}

AllKeywords == UNION {KeywordsOf(OrderedLabels[i]) : i \in DOMAIN OrderedLabels}

\* the service without classifier has typed an input that is not a header
TypedNonHeader == pc = "typed" /\ classifier = "none" /\ ~is_clause_header(text)

\* C11 as stated: with the classifier unavailable, every non-header input that
\* contains "governing law" is typed governing_law, and an input that contains
\* "shall" and no other rule keyword is typed obligation
GoverningLawAlwaysWins ==
    TypedNonHeader =>
        /\ Contains("governing law", lower(text)) => result = "governing_law"
        /\ (Contains("shall", lower(text))
              /\ \A kw \in AllKeywords \ {"shall"} : ~Contains(kw, lower(text)))
                => result = "obligation"

\* C11 amended: with the classifier unavailable, a non-header input that contains
\* "governing law" and no keyword of an earlier rule is typed governing_law, and
\* an input that contains "shall" and no other rule keyword is typed obligation
GoverningLawUnlessEarlierRule ==
    TypedNonHeader =>
        /\ (Contains("governing law", lower(text))
              /\ \A kw \in EarlierKeywords("governing_law") : ~Contains(kw, lower(text)))
                => result = "governing_law"
        /\ (Contains("shall", lower(text))
              /\ \A kw \in AllKeywords \ {"shall"} : ~Contains(kw, lower(text)))
                => result = "obligation"

\* C11 witness: "governing law" ahead of the keyword of a later rule
GoverningLawWitness ==
    /\ TypedNonHeader
    /\ text = <<"dispute resolution", Space, "governing law">>
    /\ result = "governing_law"

\* C12: for "1. This is the Purpose. 2. The Company shall maintain
\* confidentiality." segmented into two clauses of which the second still begins
\* with its marker "2.", the first clause is typed unknown or header and the
\* second, which contains "shall", is typed obligation
NumberedShallIsObligation ==
    (/\ Returned
     /\ text = NumberedSentences
     /\ Len(clauses) = 2
     /\ StartsWithMarker(segments[2])
     /\ Contains("shall", segments[2]))
        => /\ clauses[1].type \in {"unknown", "header"}
           /\ clauses[2].type = "obligation"

\* C13 as stated: calculate_clause_risk returns for every clause, whatever its
\* type, keywords, patterns and statistical signal, and the score it returns
\* lies in [0, 1]
ClauseScoreInUnitRange ==
    /\ pc # "raised"
    /\ \A k \in DOMAIN clause_risks : clause_risks[k].risk_score \in 0..100

\* C14: for every raw overall score in [0, 1], calibrate_overall_risk_score
\* returns a value in [0, 20] for NDA, a value in [70, 85] for MSA and the
\* unchanged score for any other contract type
CalibrationRanges ==
    pc = "calibrated" =>
        /\ args.contract_type = "NDA" =>
             /\ result.den = args.score.den
             /\ 0 <= result.num /\ result.num <= 20 * result.den
        /\ args.contract_type = "MSA" =>
             /\ result.den = args.score.den
             /\ 70 * result.den <= result.num /\ result.num <= 85 * result.den
        /\ args.contract_type \notin {"NDA", "MSA"} => result = args.score

\* C14 witness: the three contract types at the top of the range
CalibrationWitness ==
    /\ pc = "calibrated"
    /\ args.score.num = args.score.den
    /\ \/ args.contract_type = "MSA" /\ result.num = 85 * result.den
       \/ args.contract_type = "NDA" /\ result.num = 20 * result.den
       \/ args.contract_type = "SOW" /\ result.num = result.den

\* the keywords of a list that occur in the lower-cased text, as a set
KeywordSet(keywords, t) ==
    {keywords[i] : i \in {j \in DOMAIN keywords : Contains(keywords[j], lower(t))}}

\* a pattern of the risk patterns occurs in the lower-cased text
PatternIn(t) ==
    \/ Contains("automatically renew", lower(t))
    \/ \E i \in DOMAIN force_majeure_patterns : Contains(force_majeure_patterns[i], lower(t))
    \/ \E i \in DOMAIN security_patterns : Contains(security_patterns[i], lower(t))
    \/ \E i \in DOMAIN data_privacy_patterns : Contains(data_privacy_patterns[i], lower(t))

\* no keyword, no pattern, and a type that adds nothing
Clean(clause) ==
    /\ KeywordSet(high_risk_keywords, clause.text) = {}
    /\ KeywordSet(medium_risk_keywords, clause.text) = {}
    /\ ~PatternIn(clause.text)
    /\ clause.type \notin {"indemnity", "limitation"}

\* C15 as stated: a clause without high-risk or medium-risk keyword and without
\* risk pattern, of a type other than indemnity and limitation, gets the score
\* 0.0 from calculate_clause_risk, whatever the statistical signal does
CleanClauseScoresZero ==
    /\ pc = "raised" => ~Clean(clauses[ci])
    /\ \A k \in DOMAIN clause_risks : Clean(clauses[k]) => clause_risks[k].risk_score = 0

\* C16 as stated, for its keyword part: a text with "indemnify" and "without
\* notice" and no other keyword gets 0.5 from the keywords, one contribution for
\* the high-risk category
TwoHighRiskKeywordsCountOnce ==
    (/\ pc = "keyword_scored"
     /\ KeywordSet(high_risk_keywords, text) = {"indemnify", "without notice"}
     /\ KeywordSet(medium_risk_keywords, text) = {})
        => result.score = 50

\* C17: when lines 85-109 of calculate_clause_risk are done, the score is the
\* keyword score if the analyzer is unavailable or its try block raised, and
\* what the verdict added otherwise; after a failure that followed the
\* adjustment nothing of the adjustment is left
TiersAreExclusive ==
    pc = "checks" =>
        LET t == clauses[ci].text
            keywords == 50 * Cardinality(KeywordSet(high_risk_keywords, t))
                        + 20 * Cardinality(KeywordSet(medium_risk_keywords, t))
            verdict == CASE signal.label = "High Risk" -> signal.confidence
                         [] signal.label = "Medium Risk" -> signal.confidence \div 2
                         [] OTHER -> 0
        IN  IF risk_analyzer = "none" \/ signal.kind \in {"raise", "verdict_then_raise"}
            THEN score = keywords
            ELSE score = verdict

\* C17 witness: the try block fails after a High Risk verdict was added, on a
\* clause with a keyword, and the score is the keyword score alone
TiersExclusiveWitness ==
    /\ pc = "checks"
    /\ risk_analyzer = "loaded"
    /\ signal.kind = "verdict_then_raise"
    /\ signal.label = "High Risk"
    /\ signal.confidence = 100
    /\ KeywordSet(high_risk_keywords, clauses[ci].text) = {"indemnify"}
    /\ score = 50

\* the mean of the scores in a report's clause_risks, as a fraction
MeanOf(risks) ==
    IF Len(risks) > 0 THEN [num |-> SumScores(risks, 1), den |-> 100 * Len(risks)]
    ELSE [num |-> 0, den |-> 1]

\* C18 as stated: the overall_score of the report is the mean of the per-clause
\* scores calibrated by the declared contract type: in [0, 20] for NDA, in
\* [70, 85] for MSA, the mean itself for an unrecognized type
OverallCalibratedByDeclaredType ==
    pc = "scored" =>
        LET overall == result.overall_score
            mean == MeanOf(result.clause_risks)
        IN  /\ contract_type = "NDA" =>
                 0 <= overall.num /\ overall.num <= 20 * overall.den
            /\ contract_type = "MSA" =>
                 70 * overall.den <= overall.num /\ overall.num <= 85 * overall.den
            /\ contract_type \notin {"NDA", "MSA"} =>
                 overall.num * mean.den = mean.num * overall.den

\* a sensitive-data indicator occurs in the contract
Sensitive(t) ==
    \E i \in DOMAIN data_privacy_patterns : Contains(data_privacy_patterns[i], lower(t))

\* C19 as stated: the compliance score is 0.4 when the overall score exceeds 0.7
\* and the contract holds a sensitive-data indicator, and 0.8 otherwise
ComplianceFollowsSensitiveData ==
    pc = "compliance_scored" =>
        result = IF Exceeds(args.overall_score, 7) /\ Sensitive(text) THEN 40 ELSE 80

\* C20 as stated: score_clauses, given the clauses of extract_clauses, returns a
\* report whose suggestions name every clause whose score in clause_risks
\* exceeds 0.8
HighScoreClauseIsNamed ==
    /\ pc # "raised"
    /\ pc = "scored" =>
         \A k \in DOMAIN result.clause_risks :
             result.clause_risks[k].risk_score > 80 =>
                 \E i \in DOMAIN result.suggestions :
                     result.suggestions[i] =
                         <<"Review clause">> \o str(result.clause_risks[k].clause_id)
                             \o <<"due to high-risk keywords.">>

\* C21 as stated: the list returned by get_negotiation_points holds no string
\* twice, whatever the clauses
NegotiationPointsDistinct ==
    pc = "negotiated" =>
        \A i, j \in DOMAIN result : result[i] = result[j] => i = j

\* C22 as stated, for the contracts it names: when at least one clause of the
\* contract contains "injunctive relief", the point "Add injunctive relief /
\* equitable remedies" is not among the negotiation points
ReliefPointOnlyIfNoClauseMatches ==
    (/\ pc = "negotiated"
     /\ \E k \in DOMAIN clauses : Contains("injunctive relief", lower(clauses[k].text)))
        => ~InList("Add injunctive relief / equitable remedies", result)

\* the indices, in order, of the clauses of a type whose lower-cased text holds
\* the modal word
RECURSIVE Triggered(_, _, _, _)
Triggered(cls, k, type, modal) ==
    IF k > Len(cls) THEN <<>>
    ELSE (IF cls[k].type = type /\ Contains(modal, lower(cls[k].text)) THEN <<k>> ELSE <<>>)
             \o Triggered(cls, k + 1, type, modal)

\* the tuples are those of the clauses at the indices, one each and in order
TuplesOf(tuples, cls, indices) ==
    /\ Len(tuples) = Len(indices)
    /\ \A i \in DOMAIN tuples :
         /\ tuples[i].action \in Tokens(cls[indices[i]].text)
         /\ tuples[i].party \in Tokens(cls[indices[i]].text) \cup {"Unknown"}

\* C23: map_obligations returns one obligation for each clause typed obligation
\* whose text contains "shall" and one right for each clause typed right whose
\* text contains "may", in clause order, and nothing for any other clause
OneTuplePerTriggeredClause ==
    pc = "mapped" =>
        /\ TuplesOf(result.obligations, clauses, Triggered(clauses, 1, "obligation", "shall"))
        /\ TuplesOf(result.rights, clauses, Triggered(clauses, 1, "right", "may"))

\* C23 witness: of two clauses typed obligation, the one without "shall" gives no
\* tuple and the one with "SHALL" gives one
OneTupleWitness ==
    /\ pc = "mapped"
    /\ Len(clauses) = 2
    /\ clauses[1].type = "obligation" /\ clauses[1].text = <<"purpose">>
    /\ clauses[2].type = "obligation" /\ clauses[2].text = <<"The", Space, "SHALL">>
    /\ Len(result.obligations) = 1
    /\ result.obligations[1].party = "The"
    /\ result.rights = <<>>

\* C24: score_clauses and map_obligations leave every field of every clause
\* as it was: once extract_clauses has constructed the clauses, a step
\* changes them only inside build_clause_graph (a new request starts from a
\* new list)
ClausesChangedOnlyByResolver ==
    [][clauses' # clauses => pc \in {"waiting", "idle", "build"}]_vars

\* map_obligations has returned an obligation for a clause, which still has
\* the party it was constructed with
MappedClauseUntouched ==
    /\ pc = "mapped"
    /\ request = "obligations"
    /\ result.obligations # <<>>
    /\ Len(clauses) = 1
    /\ clauses[1].party = "Unknown"
    /\ clauses[1].text = text

\* C25: a risk-report request for a stored contract is answered with the
\* risk report, whatever the risk analyzer does: score_clauses does not raise
RiskRequestGetsReport ==
    (pc = "waiting" /\ request = "risk" /\ stored) => response = 200

\* C26: the models are loaded once by the process, requests that start after
\* an earlier one has finished do not load them again
ModelsLoadedOnce == loads <= 1

\* C27: no upload is answered with the contract when its persistence fails
\* (tasks has one entry for each upload that was answered with status 200)
NoSuccessWhenPersistenceFails ==
    \A k \in DOMAIN tasks : tasks[k] # "raised"

\* C30: a request for a contract that is not in the database is answered
\* with status 404
MissingContractAnswered404 ==
    (pc = "waiting" /\ request \in Endpoints /\ ~stored) => response = 404

\* the entries of s from the (n + 1)-th on
Added(s, n) == {s[i] : i \in (n + 1)..Len(s)}

\* C28: during and after build_clause_graph every clause has the id, type,
\* text, scores and party it was handed over with, its references start with
\* the entries they had, in order, and every entry after them is the id of a
\* clause of the list
BuildOnlyAppendsClauseIds ==
    pc \in {"build", "done"} =>
        /\ Len(clauses) = Len(args)
        /\ \A k \in DOMAIN clauses :
             LET before == args[k].references
                 after == clauses[k].references
             IN  /\ [clauses[k] EXCEPT !.references = before] = args[k]
                 /\ Len(after) >= Len(before)
                 /\ SubSeq(after, 1, Len(before)) = before
                 /\ Added(after, Len(before)) \subseteq
                        {str(clauses[h].id) : h \in DOMAIN clauses}

\* the build has ended on two clauses, the second keeping its references
\* 1.1 and 2 in front of the ids 1 and 0 added for them
BuildAppendedWitness ==
    /\ pc = "done"
    /\ Len(clauses) = 2
    /\ args[2].references = <<<<"1", ".", "1">>, <<"2">>>>
    /\ clauses[2].references = <<<<"1", ".", "1">>, <<"2">>, <<"1">>, <<"0">>>>

\* C29: build_clause_graph, once entered, returns, whatever the references
\* hold, though it appends to the lists it iterates over
BuildTerminates == (pc = "build") ~> (pc = "done")

\* the build has ended after the token 2 of the second clause added the
\* chain 1, 0
BuildChainWitness ==
    /\ pc = "done"
    /\ Len(clauses) = 2
    /\ args[2].references = <<<<"2">>>>
    /\ clauses[2].references = <<<<"2">>, <<"1">>, <<"0">>>>

=============================================================================
